---- MODULE Spec2Model ----
(***************************************************************************)
(* Model of src/app.py (Streamlit "Tidsapp"): the punch ledger             *)
(* (clock_view), the approval workflow (approvals_view), the payroll       *)
(* report (reports_view), the staff register (staff_view) and the weekly   *)
(* schedule (schedule_view), over the SQLite tables users, punches and     *)
(* shifts.                                                                 *)
(*                                                                         *)
(* Time is counted in minutes since 00:00 of day 0.  A stored timestamp    *)
(* text 'YYYY-MM-DDTHH:MM:SS' is kept as that number of minutes; the texts *)
(* that the SQL range filters compare are rebuilt from it by IsoFormat and *)
(* SqlDatetime and compared as SQLite compares TEXT (TextLess).            *)
(***************************************************************************)
EXTENDS Integers, Sequences, FiniteSets, TLC

----------------------------------------------------------------------------
(* Bounds of the model *)

\* most rows the punches table may hold
MaxPunches == 2

\* most ticks of the wall clock after StartTime
MaxTicks == 1

\* most rows the users table may hold
MaxUsers == 4

\* most shifts ever inserted (the AUTOINCREMENT sequence of shifts)
MaxShifts == 2

----------------------------------------------------------------------------
(* Program constants *)

\* timedelta(days=1), in minutes
MinutesPerDay == 1440

\* minutes per hour: total_seconds()/3600
MinutesPerHour == 60

\* daily overtime threshold, in hours: (daily["hours"] - 8)
OvertimeThreshold == 8

\* punches.clock_out is nullable; NULL marks an open punch
NULL == -1

\* character codes of the two separators between date and time of day:
\* isoformat() writes 'T', SQLite's datetime() writes ' '
SepT == 84
SepSpace == 32

\* initial values of the "Roll" and "Timlön (SEK)" widgets of staff_view
DefaultRole == "Employee"
DefaultHourly == 150

\* users.pin is nullable; `pin or None` stores an empty "PIN (kiosk)" as NULL
NoPin == ""

----------------------------------------------------------------------------
(* Input domains *)

Sessions == {"s1", "s2"}

\* the wall clock at the first step: day 1, 23:59
StartTime == 2 * MinutesPerDay - 1

\* (username, password) pairs typed into the login form
LoginInputs ==
    { <<"anna", "chef123">>, <<"erik", "server123">>, <<"erik", "admin123">>,
      <<"nobody", "chef123">> }

\* (note, location) pairs typed into clock_view before "Stämpla IN" and
\* before "Stämpla UT"
ClockInTexts == { <<"n", "">> }
ClockOutTexts == { <<"", "">>, <<"m", "k">> }

\* the two buttons of clock_view
Buttons == {"IN", "UT"}

\* what is typed into "Ny IN" / "Ny UT": nothing, a timestamp, or text that
\* pd.to_datetime rejects
AdjustTimes == {StartTime, StartTime + 1}
Blank == [kind |-> "blank", t |-> 0]
BadTime == [kind |-> "bad", t |-> 0]
GoodTimes == {[kind |-> "time", t |-> x] : x \in AdjustTimes}

\* what is typed into "Rad-ID": a number, or text that int() rejects
BadId == [kind |-> "bad", n |-> 0]
GoodIds == {[kind |-> "id", n |-> i] : i \in 1..MaxPunches}

\* the filled-in forms of "Justera/uppdatera": every well-formed form, and
\* three forms with one malformed field
AdjustInputs ==
    [sel_id : GoodIds, new_in : {Blank} \cup GoodTimes,
     new_out : {Blank} \cup GoodTimes, approve : BOOLEAN]
    \cup {[sel_id |-> BadId, new_in |-> Blank, new_out |-> Blank, approve |-> TRUE]}
    \cup {[sel_id |-> i, new_in |-> BadTime, new_out |-> Blank, approve |-> TRUE] :
             i \in GoodIds}
    \cup {[sel_id |-> i, new_in |-> t, new_out |-> BadTime, approve |-> TRUE] :
             i \in GoodIds, t \in GoodTimes}

\* dates offered to the date pickers
DateInputs == {0, 2}

----------------------------------------------------------------------------
(* State *)

VARIABLES
    users,          \* table users: sequence of rows, id = index
    punches,        \* table punches: sequence of rows, id = index
    session_state,  \* st.session_state["user"] of each session, or NoUser
    run,            \* position of each session's running clock_view script
    now,            \* the wall clock, datetime.now()
    report,         \* the last table shown by reports_view
    shifts,         \* table shifts: its AUTOINCREMENT sequence and its rows
    sel_ids,        \* the shift ids chosen in "Välj skift-ID" of each session
    delete_notice   \* the message shown by the last "Radera valda"

vars == <<users, punches, session_state, run, now, report,
          shifts, sel_ids, delete_notice>>

\* the state of schedule_view
planner == <<shifts, sel_ids, delete_notice>>

NoUser == [id |-> 0, username |-> "", role |-> ""]
Idle == [pc |-> "idle", punch_id |-> 0]
NoReport == [shown |-> FALSE, start |-> 0, end |-> 0, rows |-> {}]
NoShifts == [seq |-> 0, rows |-> {}]
NoNotice == [text |-> "", numbers |-> <<>>]

hash_pw(pw) == <<"sha256", pw>>

\* rows inserted by ensure_seed_admin
SeedUsers ==
    << [username |-> "admin", full_name |-> "System Admin",
        password_hash |-> hash_pw("admin123"), role |-> "Admin",
        hourly_rate |-> 0, pin |-> "0000"],
       [username |-> "anna", full_name |-> "Anna Andersson",
        password_hash |-> hash_pw("chef123"), role |-> "Manager",
        hourly_rate |-> 165, pin |-> "1111"],
       [username |-> "erik", full_name |-> "Erik Ek",
        password_hash |-> hash_pw("server123"), role |-> "Employee",
        hourly_rate |-> 145, pin |-> "2222"] >>

Init ==
    /\ users = SeedUsers
    /\ punches = <<>>
    /\ session_state = [s \in Sessions |-> NoUser]
    /\ run = [s \in Sessions |-> Idle]
    /\ now = StartTime
    /\ report = NoReport
    /\ shifts = NoShifts
    /\ sel_ids = [s \in Sessions |-> {}]
    /\ delete_notice = NoNotice

----------------------------------------------------------------------------
(* Helpers *)

Max(a, b) == IF a >= b THEN a ELSE b

\* ids of the rows of users with this username (username is UNIQUE)
get_user_by_username(username) ==
    {i \in 1..Len(users) : users[i].username = username}

\* SELECT id ... WHERE user_id=? AND clock_out IS NULL ORDER BY id DESC LIMIT 1
\* (0 when there is no such row)
ActivePunch(uid) ==
    LET open == {i \in 1..Len(punches) :
                    punches[i].user_id = uid /\ punches[i].clock_out = NULL}
    IN  IF open = {} THEN 0 ELSE CHOOSE i \in open : \A j \in open : j <= i

\* COALESCE(col,'') || (f"\n{text}" if text else "")
AppendText(col, text) == IF text = "" THEN col ELSE col \o "\n" \o text

----------------------------------------------------------------------------
(* Timestamp texts and the SQL range filter *)

\* datetime.isoformat(): 'YYYY-MM-DD' 'T' 'HH:MM:SS' as <<date, separator, time>>
IsoFormat(t) == <<t \div MinutesPerDay, SepT, t % MinutesPerDay>>

\* SQLite datetime(x): the same instant written 'YYYY-MM-DD HH:MM:SS'
SqlDatetime(txt) == <<txt[1], SepSpace, txt[3]>>

\* SQLite datetime('YYYY-MM-DD', '+1 day'): midnight of the next day
SqlDatetimePlusDay(d) == <<d + 1, SepSpace, 0>>

\* a < b for two TEXT values of this shape, compared character by character
TextLess(a, b) ==
    \/ a[1] < b[1]
    \/ a[1] = b[1] /\ a[2] < b[2]
    \/ a[1] = b[1] /\ a[2] = b[2] /\ a[3] < b[3]

\* WHERE datetime(p.clock_in) >= ? AND datetime(p.clock_in) < datetime(?,'+1 day')
\* with params (datetime.combine(start, time.min).isoformat(), end.isoformat())
InRange(clock_in, start, end) ==
    /\ ~TextLess(SqlDatetime(IsoFormat(clock_in)), IsoFormat(start * MinutesPerDay))
    /\ TextLess(SqlDatetime(IsoFormat(clock_in)), SqlDatetimePlusDay(end))

\* the range query restricted to approved punches
SelectFrom_ApprovedOnly(tbl, start, end) ==
    {i \in 1..Len(tbl) : InRange(tbl[i].clock_in, start, end) /\ tbl[i].approved}

\* ids of the rows of the punches table tbl that the range query of
\* approvals_view / reports_view selects
SelectFrom(tbl, start, end) ==
    {i \in 1..Len(tbl) : InRange(tbl[i].clock_in, start, end)}

\* the range query on the stored table
SelectInRange(start, end) == SelectFrom(punches, start, end)

----------------------------------------------------------------------------
(* Auth *)

\* login_ui, "Logga in": only shown while the session has no user
Login(s, username, password) ==
    /\ session_state[s] = NoUser
    /\ \E i \in get_user_by_username(username) :
          /\ users[i].password_hash = hash_pw(password)
          /\ session_state' = [session_state EXCEPT ![s] =
                [id |-> i, username |-> users[i].username, role |-> users[i].role]]
    /\ UNCHANGED <<users, punches, run, now, report>>
    /\ UNCHANGED planner

\* main, "Logga ut": st.session_state.pop("user")
Logout(s) ==
    /\ session_state[s] # NoUser
    /\ run[s] = Idle
    /\ session_state' = [session_state EXCEPT ![s] = NoUser]
    /\ UNCHANGED <<users, punches, run, now, report>>
    /\ UNCHANGED planner

----------------------------------------------------------------------------
(* Punch ledger: clock_view *)

\* clock_view opens one connection (transaction) for the SELECT of the open
\* punch and another for the UPDATE or INSERT that follows, so the steps of
\* other sessions may fall between the two: each is an action of its own.

\* runs that have read "no open punch" and have not inserted yet (they count
\* against MaxPunches, so that a started run can always finish)
PendingInserts == Cardinality({s \in Sessions : run[s].pc = "in"})

\* First transaction of a clock_view run in which `button` was pressed: read
\* the user's open punch.  The button is only honoured if it is the one this
\* run renders ("Stämpla UT" with an open punch, "Stämpla IN" without).
ClockReadActive(s, button) ==
    /\ session_state[s] # NoUser
    /\ run[s] = Idle
    /\ LET active == ActivePunch(session_state[s].id)
       IN  IF active # 0
           THEN /\ button = "UT"
                /\ run' = [run EXCEPT ![s] = [pc |-> "out", punch_id |-> active]]
           ELSE /\ button = "IN"
                /\ Len(punches) + PendingInserts < MaxPunches
                /\ run' = [run EXCEPT ![s] = [pc |-> "in", punch_id |-> 0]]
    /\ UNCHANGED <<users, punches, session_state, now, report>>
    /\ UNCHANGED planner

\* UPDATE punches SET clock_out=?, note=COALESCE(note,'')||?,
\*        location=COALESCE(location,'')||? WHERE id=?
ClockOutUpdate(p, id, t, note, location) ==
    [p EXCEPT ![id] = [@ EXCEPT !.clock_out = t,
                                !.note = AppendText(@, note),
                                !.location = AppendText(@, location)]]

\* Second transaction of the run, "Stämpla UT"
ClockOutWrite(s, note, location) ==
    /\ run[s].pc = "out"
    /\ punches' = ClockOutUpdate(punches, run[s].punch_id, now, note, location)
    /\ run' = [run EXCEPT ![s] = Idle]
    /\ UNCHANGED <<users, session_state, now, report>>
    /\ UNCHANGED planner

\* INSERT INTO punches (user_id, clock_in, note, location) VALUES (?,?,?,?)
ClockInInsert(p, uid, t, note, location) ==
    Append(p, [user_id |-> uid, clock_in |-> t, clock_out |-> NULL,
               note |-> note, location |-> location, approved |-> FALSE])

\* Second transaction of the run, "Stämpla IN"
ClockInWrite(s, note, location) ==
    /\ run[s].pc = "in"
    /\ punches' = ClockInInsert(punches, session_state[s].id, now, note, location)
    /\ run' = [run EXCEPT ![s] = Idle]
    /\ UNCHANGED <<users, session_state, now, report>>
    /\ UNCHANGED planner

\* the wall clock advances
Tick ==
    /\ now < StartTime + MaxTicks
    /\ now' = now + 1
    /\ UNCHANGED <<users, punches, session_state, run, report>>
    /\ UNCHANGED planner

----------------------------------------------------------------------------
(* Approval workflow: approvals_view *)

\* UPDATE punches SET clock_in=? WHERE id=?   (no row matches an unknown id)
SetClockIn(p, id, t) ==
    IF id \in 1..Len(p) THEN [p EXCEPT ![id].clock_in = t] ELSE p

\* UPDATE punches SET clock_out=? WHERE id=?
SetClockOut(p, id, t) ==
    IF id \in 1..Len(p) THEN [p EXCEPT ![id].clock_out = t] ELSE p

\* UPDATE punches SET approved=? WHERE id=?   (1 if approve else 0)
SetApproved(p, id, approve) ==
    IF id \in 1..Len(p) THEN [p EXCEPT ![id].approved = approve] ELSE p

\* int(sel_id) or pd.to_datetime(...) raises inside the transaction
AdjustRaises(sel_id, new_in, new_out) ==
    sel_id.kind = "bad" \/ new_in.kind = "bad" \/ new_out.kind = "bad"

\* AdjustStatements with the clock_out statement run unconditionally, an
\* empty "Ny UT" written as NULL
AdjustStatements_AlwaysWritesOut(p, id, new_in, new_out, approve) ==
    LET p1 == IF new_in.kind = "time" THEN SetClockIn(p, id, new_in.t) ELSE p
        p2 == SetClockOut(p1, id, IF new_out.kind = "time" THEN new_out.t ELSE NULL)
    IN  SetApproved(p2, id, approve)

\* The statements of the "Spara ändring" transaction, in order: clock_in if
\* new_in is non-empty, clock_out if new_out is non-empty, approved always.
AdjustStatements(p, id, new_in, new_out, approve) ==
    LET p1 == IF new_in.kind = "time" THEN SetClockIn(p, id, new_in.t) ELSE p
        p2 == IF new_out.kind = "time" THEN SetClockOut(p1, id, new_out.t) ELSE p1
    IN  SetApproved(p2, id, approve)

\* AdjustTransaction without the rollback: the clock_in statement that ran
\* before a malformed "Ny UT" raised stays applied
AdjustTransaction_NoRollback(p, sel_id, new_in, new_out, approve) ==
    IF sel_id.kind = "bad" \/ new_in.kind = "bad"
    THEN p
    ELSE IF new_out.kind = "bad"
         THEN IF new_in.kind = "time" THEN SetClockIn(p, sel_id.n, new_in.t) ELSE p
         ELSE AdjustStatements(p, sel_id.n, new_in, new_out, approve)

\* `with get_conn() as conn:` commits the statements, or rolls all of them
\* back when one raises (the except branch only shows the error)
AdjustTransaction(p, sel_id, new_in, new_out, approve) ==
    IF AdjustRaises(sel_id, new_in, new_out)
    THEN p
    ELSE AdjustStatements(p, sel_id.n, new_in, new_out, approve)

\* the role test at the top of approvals_view and schedule_view, on the role
\* cached in the session at login
IsManagerOrAdmin(s) == session_state[s].role \in {"Manager", "Admin"}

\* approvals_view returns before the form when the listing of the chosen
\* range is empty; some choice of the two dates shows the form
AdjustFormShown == \E start, end \in DateInputs : SelectInRange(start, end) # {}

\* approvals_view with "Spara ändring" pressed and a non-empty Rad-ID
Adjust(s, sel_id, new_in, new_out, approve) ==
    /\ session_state[s] # NoUser
    /\ run[s] = Idle
    /\ punches' =
          IF IsManagerOrAdmin(s) /\ AdjustFormShown
          THEN AdjustTransaction(punches, sel_id, new_in, new_out, approve)
          ELSE punches
    /\ UNCHANGED <<users, session_state, run, now, report>>
    /\ UNCHANGED planner

----------------------------------------------------------------------------
(* Payroll report: reports_view *)

\* n/m rounded to the nearest integer (m > 0)
RoundDiv(n, m) == (2 * n + m) \div (2 * m)

\* PunchHours with an open punch counted up to the current time
PunchHours_Elapsed(p) ==
    RoundDiv(((IF p.clock_out = NULL THEN now ELSE p.clock_out) - p.clock_in) * 100,
             MinutesPerHour)

\* ((clock_out - clock_in).total_seconds()/3600).fillna(0).round(2), in
\* hundredths of an hour; an open punch has no difference and is filled with 0
PunchHours(p) ==
    IF p.clock_out = NULL
    THEN 0
    ELSE RoundDiv((p.clock_out - p.clock_in) * 100, MinutesPerHour)

\* df["date"] = df["clock_in"].dt.date
PunchDate(p) == p.clock_in \div MinutesPerDay

\* u.full_name of the LEFT JOIN users u ON p.user_id=u.id
PunchFullName(p) == users[p.user_id].full_name

\* agg "hours": "sum" over the punches of one group
RECURSIVE SumHours(_, _)
SumHours(tbl, ids) ==
    IF ids = {}
    THEN 0
    ELSE LET i == CHOOSE j \in ids : TRUE
         IN  PunchHours(tbl[i]) + SumHours(tbl, ids \ {i})

\* agg "hourly_rate": "max" over the punches of one group
MaxRate(tbl, ids) ==
    LET rates == {users[tbl[i].user_id].hourly_rate : i \in ids}
    IN  CHOOSE r \in rates : \A q \in rates : q <= r

\* OvertimeHours without the clip at 0
OvertimeHours_NoClip(hours) == hours - OvertimeThreshold * 100

\* (daily["hours"] - 8).clip(lower=0), in hundredths of an hour
OvertimeHours(hours) == Max(hours - OvertimeThreshold * 100, 0)

\* daily["hours"] - daily["ot_hours"]
RegularHours(hours) == hours - OvertimeHours(hours)

\* reg_hours*hourly_rate + ot_hours*hourly_rate*1.5, counted in half
\* hundredths of a currency unit (twice the pay times 100)
Pay2(hours, rate) ==
    2 * RegularHours(hours) * rate + 3 * OvertimeHours(hours) * rate

\* df.groupby(["full_name","date"]): the selected punches with this key
GroupOf(tbl, selected, full_name, d) ==
    {i \in selected : PunchFullName(tbl[i]) = full_name /\ PunchDate(tbl[i]) = d}

\* one row of `daily`
DailyRow(tbl, ids, full_name, d) ==
    LET hours == SumHours(tbl, ids)
        rate == MaxRate(tbl, ids)
    IN  [full_name |-> full_name, date |-> d, hours |-> hours, hourly_rate |-> rate,
         ot_hours |-> OvertimeHours(hours), reg_hours |-> RegularHours(hours),
         pay2 |-> Pay2(hours, rate)]

\* the table `daily` computed from the punches table tbl
DailyOf(tbl, start, end) ==
    LET selected == SelectFrom(tbl, start, end)
        keys == {<<PunchFullName(tbl[i]), PunchDate(tbl[i])>> : i \in selected}
    IN  {DailyRow(tbl, GroupOf(tbl, selected, k[1], k[2]), k[1], k[2]) : k \in keys}

\* the table `daily` for the punches selected by the range query
Daily(start, end) == DailyOf(punches, start, end)

\* reports_view for the chosen dates (any logged-in user; an empty selection
\* shows no table)
reports_view(s, start, end) ==
    /\ session_state[s] # NoUser
    /\ run[s] = Idle
    /\ report' = [shown |-> TRUE, start |-> start, end |-> end,
                  rows |-> Daily(start, end)]
    /\ UNCHANGED <<users, punches, session_state, run, now>>
    /\ UNCHANGED planner

----------------------------------------------------------------------------
(* Kiosk login: login_ui, "Logga in via PIN" *)

\* ids of the rows of users with this pin (SELECT ... WHERE pin=?; no row has
\* pin = '' since an empty PIN is stored as NULL)
get_user_by_pin(pin) ==
    {i \in 1..Len(users) : pin # NoPin /\ users[i].pin = pin}

\* fetchone() of a query without ORDER BY: whichever matching row comes first
PinLogin(s, pin) ==
    /\ session_state[s] = NoUser
    /\ \E i \in get_user_by_pin(pin) :
          session_state' = [session_state EXCEPT ![s] =
                [id |-> i, username |-> users[i].username, role |-> users[i].role]]
    /\ UNCHANGED <<users, punches, run, now, report>>
    /\ UNCHANGED planner

----------------------------------------------------------------------------
(* Staff register: staff_view *)

\* INSERT INTO users (...) VALUES (username, full_name,
\*     hash_pw(pw or "changeme"), role, float(hourly), pin or None)
\* username is UNIQUE: a second row with the same username raises
\* IntegrityError and the transaction is rolled back; pin has no constraint
StaffInsert(u, f) ==
    IF \E i \in 1..Len(u) : u[i].username = f.username
    THEN u
    ELSE Append(u, [username |-> f.username, full_name |-> f.full_name,
                    password_hash |-> hash_pw(IF f.pw = "" THEN "changeme" ELSE f.pw),
                    role |-> f.role, hourly_rate |-> f.hourly, pin |-> f.pin])

\* UPDATE users SET full_name=?, role=?, hourly_rate=?, pin=?[, password_hash=?]
\*        WHERE username=?     (password_hash only when "Lösenord" is filled in)
StaffUpdate(u, f) ==
    [i \in 1..Len(u) |->
        IF u[i].username = f.username
        THEN [u[i] EXCEPT !.full_name = f.full_name,
                          !.role = f.role,
                          !.hourly_rate = f.hourly,
                          !.pin = f.pin,
                          !.password_hash = IF f.pw = "" THEN @ ELSE hash_pw(f.pw)]
        ELSE u[i]]

\* staff_view with "Spara person" pressed: the view returns at the role test
\* unless the role cached in the session is Admin
StaffSave(s, f) ==
    /\ session_state[s] # NoUser
    /\ run[s] = Idle
    /\ f.mode = "Ny" => Len(users) < MaxUsers
    /\ users' =
          IF session_state[s].role = "Admin"
          THEN IF f.mode = "Ny" THEN StaffInsert(users, f) ELSE StaffUpdate(users, f)
          ELSE users
    /\ UNCHANGED <<punches, session_state, run, now, report>>
    /\ UNCHANGED planner

----------------------------------------------------------------------------
(* Weekly schedule: schedule_view *)

\* the row INSERT INTO shifts stores, with the widgets' initial start and end
\* time and empty position and location
ShiftRow(id, uid, day) ==
    [id |-> id, user_id |-> uid, shift_date |-> day, start_time |-> "10:00",
     end_time |-> "18:00", position |-> "", location |-> ""]

\* "Spara skift": person is a full name offered by "Medarbetare"; the user id
\* is that of the first row of users_df with this full name
ShiftCreate(s, person, day) ==
    /\ session_state[s] # NoUser
    /\ run[s] = Idle
    /\ shifts.seq < MaxShifts
    /\ \E uid \in {i \in 1..Len(users) : users[i].full_name = person} :
          shifts' =
              IF IsManagerOrAdmin(s)
              THEN [seq |-> shifts.seq + 1,
                    rows |-> shifts.rows \cup {ShiftRow(shifts.seq + 1, uid, day)}]
              ELSE shifts
    /\ UNCHANGED <<users, punches, session_state, run, now, report>>
    /\ UNCHANGED <<sel_ids, delete_notice>>

\* ids of the week listing: the shifts of the seven days from day 0
WeekListing == {r.id : r \in {x \in shifts.rows : x.shift_date \in 0..6}}

\* schedule_view opens one connection for the week listing and another for
\* the DELETE that follows, so the steps of other sessions may fall between
\* the two.  First transaction of a run in which "Radera valda" was pressed:
\* the listing is read and `sel`, chosen from it, is what the DELETE will name.
ShiftReadWeek(s, sel) ==
    /\ session_state[s] # NoUser
    /\ run[s] = Idle
    /\ IsManagerOrAdmin(s)
    /\ sel # {}
    /\ sel \subseteq WeekListing
    /\ run' = [run EXCEPT ![s] = [pc |-> "del", punch_id |-> 0]]
    /\ sel_ids' = [sel_ids EXCEPT ![s] = sel]
    /\ UNCHANGED <<users, punches, session_state, now, report>>
    /\ UNCHANGED <<shifts, delete_notice>>

\* st.success("Raderat."): the message carries no number
DeleteNotice == [text |-> "Raderat.", numbers |-> <<>>]

\* Second transaction: executemany("DELETE FROM shifts WHERE id=?", sel)
ShiftDelete(s) ==
    /\ run[s].pc = "del"
    /\ shifts' = [shifts EXCEPT !.rows = {r \in @ : r.id \notin sel_ids[s]}]
    /\ delete_notice' = DeleteNotice
    /\ run' = [run EXCEPT ![s] = Idle]
    /\ sel_ids' = [sel_ids EXCEPT ![s] = {}]
    /\ UNCHANGED <<users, punches, session_state, now, report>>

----------------------------------------------------------------------------
Next ==
    \/ \E s \in Sessions, l \in LoginInputs : Login(s, l[1], l[2])
    \/ \E s \in Sessions : Logout(s)
    \/ \E s \in Sessions, b \in Buttons : ClockReadActive(s, b)
    \/ \E s \in Sessions, x \in ClockOutTexts : ClockOutWrite(s, x[1], x[2])
    \/ \E s \in Sessions, x \in ClockInTexts : ClockInWrite(s, x[1], x[2])
    \/ \E s \in Sessions, x \in AdjustInputs :
          Adjust(s, x.sel_id, x.new_in, x.new_out, x.approve)
    \/ Tick

Spec == Init /\ [][Next]_vars

----------------------------------------------------------------------------
(* Properties of the punch ledger and the approval workflow (Spec) *)

PunchIds == 1..Len(punches)
IsOpen(p) == p.clock_out = NULL
OpenPunchesOf(uid) == {i \in PunchIds : punches[i].user_id = uid /\ IsOpen(punches[i])}

\* session s takes a step of "Stämpla IN" / "Stämpla UT" / "Spara ändring"
ClockInStep(s) == \E x \in ClockInTexts : ClockInWrite(s, x[1], x[2])
ClockOutStep(s) == \E x \in ClockOutTexts : ClockOutWrite(s, x[1], x[2])
AdjustStep(s, x) == Adjust(s, x.sel_id, x.new_in, x.new_out, x.approve)

\* the form is well-formed and names a stored punch
NamesPunch(x) ==
    /\ ~AdjustRaises(x.sel_id, x.new_in, x.new_out)
    /\ x.sel_id.n \in PunchIds

\* C1: in every reachable state each worker owns at most one punch whose
\* clock-out is null.
C1_AtMostOneOpenPunch ==
    \A uid \in 1..Len(users) : Cardinality(OpenPunchesOf(uid)) <= 1

\* C2: of two concurrent clock-ins of one worker only one creates a record:
\* no "Stämpla IN" inserts a punch for a worker who already has an open punch.
C2_ClockInOnlyWithoutOpenPunch ==
    [][\A s \in Sessions :
          ClockInStep(s) => OpenPunchesOf(session_state[s].id) = {}]_vars

\* C3: in every reachable state every punch whose clock-out is set has
\* clock-out >= clock-in.
C3_ClockOutNotBeforeClockIn ==
    \A i \in PunchIds :
        ~IsOpen(punches[i]) => punches[i].clock_out >= punches[i].clock_in

\* the record that the statements of adjust form x would leave
AdjustedRecord(x) ==
    AdjustStatements(punches, x.sel_id.n, x.new_in, x.new_out, x.approve)[x.sel_id.n]

\* C4: an adjust whose resulting record would have clock-out earlier than
\* clock-in is rejected and leaves the record (every record) unchanged.
C4_InvalidAdjustRejected ==
    [][\A s \in Sessions, x \in AdjustInputs :
          ( /\ AdjustStep(s, x)
            /\ IsManagerOrAdmin(s)
            /\ NamesPunch(x)
            /\ ~IsOpen(AdjustedRecord(x))
            /\ AdjustedRecord(x).clock_out < AdjustedRecord(x).clock_in )
          => punches' = punches]_vars

\* C5: adjust changes only the fields supplied: an empty "Ny IN" keeps every
\* clock-in, an empty "Ny UT" keeps every clock-out, and a form with nothing
\* supplied (both empty, "Godkänn" not ticked) leaves every record as it was,
\* approved records still approved.
C5_AdjustChangesOnlySuppliedFields ==
    [][\A s \in Sessions, x \in AdjustInputs :
          AdjustStep(s, x) =>
            /\ x.new_in = Blank =>
                  \A i \in PunchIds : punches'[i].clock_in = punches[i].clock_in
            /\ x.new_out = Blank =>
                  \A i \in PunchIds : punches'[i].clock_out = punches[i].clock_out
            /\ (x.new_in = Blank /\ x.new_out = Blank /\ ~x.approve) =>
                  punches' = punches]_vars

\* C6: a clock-out of a punch that is already closed changes neither its
\* clock-out nor its note nor its location.
C6_ClockOutOfClosedPunchRejected ==
    [][\A s \in Sessions :
          (ClockOutStep(s) /\ ~IsOpen(punches[run[s].punch_id]))
          => punches' = punches]_vars

\* C7: closing is one-way: a punch with a non-null clock-out has a non-null
\* clock-out after every step.
C7_ClosingIsOneWay ==
    [][\A i \in PunchIds :
          ~IsOpen(punches[i]) => (i \in 1..Len(punches') /\ ~IsOpen(punches'[i]))]_vars

\* a closed punch on which both "Stämpla UT" and "Spara ändring" have acted:
\* its note was appended to, it is approved, and its times were overwritten
\* so that it ends before it starts
C7_ClosedPunchEdited ==
    \E i \in PunchIds :
        /\ ~IsOpen(punches[i])
        /\ \A x \in ClockInTexts : punches[i].note # x[1]
        /\ punches[i].approved
        /\ punches[i].clock_out < punches[i].clock_in

\* session s takes a step of one of its operations
OperationStep(s) ==
    \/ \E b \in Buttons : ClockReadActive(s, b)
    \/ ClockInStep(s)
    \/ ClockOutStep(s)
    \/ \E x \in AdjustInputs : AdjustStep(s, x)

\* C8: no operation of an Employee changes the approved flag, clock-in or
\* clock-out of a closed punch, and no clock-in or clock-out sets approved.
C8_EmployeeCannotChangeClosedPunch ==
    [][\A s \in Sessions :
          /\ (session_state[s].role = "Employee" /\ OperationStep(s)) =>
                \A i \in PunchIds :
                    ~IsOpen(punches[i]) =>
                        /\ punches'[i].approved = punches[i].approved
                        /\ punches'[i].clock_in = punches[i].clock_in
                        /\ punches'[i].clock_out = punches[i].clock_out
          /\ (ClockInStep(s) \/ ClockOutStep(s)) =>
                \A i \in 1..Len(punches') :
                    punches'[i].approved =>
                        (i \in PunchIds /\ punches[i].approved)]_vars

----------------------------------------------------------------------------
(* The report over stored punch tables.  The tables are states the ledger  *)
(* reaches through clock_view and approvals_view (which can set any times, *)
(* and close or leave open any punch); two workers may carry the same      *)
(* full name (staff_view does not constrain full_name).                    *)

\* most rows of a stored punches table
MaxReportPunches == 2

\* clock-in / clock-out pairs: day 1 09:00-18:00 (9 h), 09:00-13:00 (4 h),
\* 14:00-17:00 (3 h), 09:00 still open, 09:00-08:00 (adjusted to end before it
\* starts), and day 2 09:00-09:50 (0.83 h)
ReportIntervals ==
    { <<MinutesPerDay + 540, MinutesPerDay + 1080>>,
      <<MinutesPerDay + 540, MinutesPerDay + 780>>,
      <<MinutesPerDay + 840, MinutesPerDay + 1020>>,
      <<MinutesPerDay + 540, NULL>>,
      <<MinutesPerDay + 540, MinutesPerDay + 480>>,
      <<2 * MinutesPerDay + 540, 2 * MinutesPerDay + 590>> }

ReportPunchRows ==
    {[user_id |-> u, clock_in |-> x[1], clock_out |-> x[2], note |-> "n",
      location |-> "", approved |-> a] :
        u \in {2, 3}, x \in ReportIntervals, a \in BOOLEAN}

\* the seeded users, and the same with Erik renamed to Anna's full name
ReportUserTables ==
    {SeedUsers, [SeedUsers EXCEPT ![3].full_name = SeedUsers[2].full_name]}

\* dates offered to the date pickers of reports_view
ReportDates == 0..2

\* the session that opens the report
ReportSessions == {"s1"}

\* the logins tried before a report: one worker's and a failing one
ReportLoginInputs == { <<"erik", "server123">>, <<"nobody", "chef123">> }

InitReport ==
    /\ users \in ReportUserTables
    /\ \E n \in 1..MaxReportPunches : punches \in [1..n -> ReportPunchRows]
    /\ session_state = [s \in Sessions |-> NoUser]
    /\ run = [s \in Sessions |-> Idle]
    /\ now = 3 * MinutesPerDay
    /\ report = NoReport
    /\ shifts = NoShifts
    /\ sel_ids = [s \in Sessions |-> {}]
    /\ delete_notice = NoNotice

NextReport ==
    \/ \E s \in ReportSessions, l \in ReportLoginInputs : Login(s, l[1], l[2])
    \/ \E s \in ReportSessions, start \in ReportDates, end \in ReportDates :
          reports_view(s, start, end)

SpecReport == InitReport /\ [][NextReport]_vars

----------------------------------------------------------------------------
(* The staff register and the schedule, next to the approval workflow:     *)
(* SpecStaff starts with one closed punch of erik in the ledger            *)

\* logins at the desk
StaffLoginInputs ==
    { <<"admin", "admin123">>, <<"anna", "chef123">>, <<"erik", "server123">>,
      <<"anna", "admin123">> }

\* PINs typed into the kiosk login
StaffPins == {"1111", "9999"}

\* filled-in forms of "Lägg till/uppdatera person"
StaffForms ==
    { \* a new worker with the PIN anna has
      [mode |-> "Ny", username |-> "nils", full_name |-> "Nils Nord",
       role |-> DefaultRole, hourly |-> DefaultHourly, pin |-> "1111", pw |-> ""],
      \* a new worker with the username erik has
      [mode |-> "Ny", username |-> "erik", full_name |-> "Erik Ny",
       role |-> DefaultRole, hourly |-> DefaultHourly, pin |-> NoPin, pw |-> ""],
      \* anna, every other field left as the form opens
      [mode |-> "Uppdatera", username |-> "anna", full_name |-> "",
       role |-> DefaultRole, hourly |-> DefaultHourly, pin |-> NoPin, pw |-> ""],
      \* erik, every field filled in
      [mode |-> "Uppdatera", username |-> "erik", full_name |-> "Erik Ek",
       role |-> "Manager", hourly |-> 160, pin |-> "2222", pw |-> "nytt"],
      \* a username nobody has
      [mode |-> "Uppdatera", username |-> "nobody", full_name |-> "N N",
       role |-> "Admin", hourly |-> 160, pin |-> "3333", pw |-> ""] }

\* full names chosen in "Medarbetare" and days chosen in "Dag"
ShiftPersons == {"Erik Ek"}
ShiftDays == {0}

\* ids the shifts table may ever hold
ShiftIds == 1..MaxShifts

\* forms of "Justera/uppdatera" at the desk: they name punch 1 or a malformed
\* id, approve, and set no or a malformed "Ny UT"
StaffAdjustInputs ==
    {x \in AdjustInputs :
        /\ x.sel_id \in {BadId, [kind |-> "id", n |-> 1]}
        /\ x.new_in \in {Blank, BadTime, [kind |-> "time", t |-> StartTime]}
        /\ x.new_out \in {Blank, BadTime}
        /\ x.approve}

InitStaff ==
    /\ users = SeedUsers
    /\ punches = << [user_id |-> 3, clock_in |-> StartTime - 8 * MinutesPerHour,
                     clock_out |-> StartTime - MinutesPerHour, note |-> "",
                     location |-> "", approved |-> FALSE] >>
    /\ session_state = [s \in Sessions |-> NoUser]
    /\ run = [s \in Sessions |-> Idle]
    /\ now = StartTime
    /\ report = NoReport
    /\ shifts = NoShifts
    /\ sel_ids = [s \in Sessions |-> {}]
    /\ delete_notice = NoNotice

NextStaff ==
    \/ \E s \in Sessions, l \in StaffLoginInputs : Login(s, l[1], l[2])
    \/ \E s \in Sessions, pin \in StaffPins : PinLogin(s, pin)
    \/ \E s \in Sessions : Logout(s)
    \/ \E s \in Sessions, f \in StaffForms : StaffSave(s, f)
    \/ \E s \in Sessions, person \in ShiftPersons, day \in ShiftDays :
          ShiftCreate(s, person, day)
    \/ \E s \in Sessions, sel \in SUBSET ShiftIds : ShiftReadWeek(s, sel)
    \/ \E s \in Sessions : ShiftDelete(s)
    \/ \E s \in Sessions, x \in StaffAdjustInputs :
          Adjust(s, x.sel_id, x.new_in, x.new_out, x.approve)

SpecStaff == InitStaff /\ [][NextStaff]_vars

----------------------------------------------------------------------------
(* Properties of the payroll report (SpecReport) *)

\* rows of the shown report
Rows == IF report.shown THEN report.rows ELSE {}

\* the punches the shown report was computed from
Selected == SelectInRange(report.start, report.end)

\* minutes between clock-in and clock-out of a closed punch
Minutes(p) == p.clock_out - p.clock_in

\* C9: every row has overtime = max(0, total - 8 h), regular = total -
\* overtime (so regular <= 8 h and regular + overtime = total) and
\* pay = regular * rate + overtime * rate * 1.5 (hours in hundredths, pay
\* doubled); a report over a single 9-hour punch is one row with 8 regular
\* and 1 overtime hour paid at that worker's rate, and a report over two
\* punches of 4 h and 3 h of one worker on one day is one row with 7 regular
\* and 0 overtime hours.
C9_OvertimeSplitAndPay ==
    /\ \A r \in Rows :
          /\ r.ot_hours = (IF r.hours > 800 THEN r.hours - 800 ELSE 0)
          /\ r.reg_hours = r.hours - r.ot_hours
          /\ r.reg_hours <= 800
          /\ r.reg_hours + r.ot_hours = r.hours
          /\ r.pay2 = 2 * r.reg_hours * r.hourly_rate
                        + 3 * r.ot_hours * r.hourly_rate
    /\ report.shown =>
          \A i \in Selected :
              (Selected = {i} /\ ~IsOpen(punches[i]) /\ Minutes(punches[i]) = 540) =>
                  \E r \in Rows :
                      /\ Rows = {r}
                      /\ r.hours = 900 /\ r.reg_hours = 800 /\ r.ot_hours = 100
                      /\ r.pay2 = (2 * 800 + 3 * 100) * users[punches[i].user_id].hourly_rate
    /\ report.shown =>
          \A i, j \in Selected :
              ( /\ Selected = {i, j}
                /\ punches[i].user_id = punches[j].user_id
                /\ PunchDate(punches[i]) = PunchDate(punches[j])
                /\ ~IsOpen(punches[i]) /\ Minutes(punches[i]) = 240
                /\ ~IsOpen(punches[j]) /\ Minutes(punches[j]) = 180 ) =>
                  \E r \in Rows :
                      /\ Rows = {r}
                      /\ r.hours = 700 /\ r.reg_hours = 700 /\ r.ot_hours = 0

\* a report was shown with a row of 9 hours (overtime) and a row below the
\* threshold
C9_ReportWithOvertimeRow ==
    /\ \E r \in Rows : r.hours = 900 /\ r.ot_hours = 100
    /\ \E r \in Rows : r.hours = 83 /\ r.ot_hours = 0

\* the dates between the two chosen dates, both included
DatesOfRange == report.start .. report.end

\* C10: the report has a row for a (worker, date) pair if and only if that
\* worker has a closed punch clocked in on that date, the date being within
\* the chosen range; a worker-day with only open punches has no row.
C10_RowIffClosedPunchInRange ==
    report.shown =>
        \A uid \in 1..Len(users), d \in 0..3 :
            (\E r \in Rows : r.full_name = users[uid].full_name /\ r.date = d)
            <=>
            (\E i \in PunchIds :
                /\ punches[i].user_id = uid
                /\ ~IsOpen(punches[i])
                /\ PunchDate(punches[i]) = d
                /\ d \in DatesOfRange)

\* hours of the closed punches among ids, each rounded to hundredths
RECURSIVE ClosedHours(_)
ClosedHours(ids) ==
    IF ids = {}
    THEN 0
    ELSE LET i == CHOOSE j \in ids : TRUE
             h == IF IsOpen(punches[i])
                  THEN 0
                  ELSE RoundDiv(Minutes(punches[i]) * 100, MinutesPerHour)
         IN  h + ClosedHours(ids \ {i})

\* the selected punches that row r sums up
PunchesOfRow(r) == GroupOf(punches, Selected, r.full_name, r.date)

C12_SelectsWholeDaysOfRange ==
    report.shown =>
        Selected = {i \in PunchIds :
                      /\ report.start * MinutesPerDay <= punches[i].clock_in
                      /\ punches[i].clock_in < (report.end + 1) * MinutesPerDay}

\* the stored punches table with the approved flags replaced by `flags`
WithApproved(flags) ==
    [i \in PunchIds |-> [punches[i] EXCEPT !.approved = flags[i]]]

\* C16: the report does not depend on approval: every punches table that
\* differs from the stored one only in approved flags gives the same rows for
\* the chosen dates.
C16_ReportIgnoresApproval ==
    report.shown =>
        \A flags \in [PunchIds -> BOOLEAN] :
            DailyOf(WithApproved(flags), report.start, report.end) = report.rows

\* a report over an approved and an unapproved punch
C16_ReportOverMixedApproval ==
    /\ Rows # {}
    /\ \E i, j \in Selected : punches[i].approved /\ ~punches[j].approved

\* C19: no row combines punches of two workers: every row sums the selected
\* punches of exactly one worker id on its date and carries that worker's
\* hourly rate, also when two workers have the same full name.
C19_RowOfOneWorker ==
    \A r \in Rows :
        \E uid \in 1..Len(users) :
            /\ PunchesOfRow(r) =
                  {i \in Selected :
                      punches[i].user_id = uid /\ PunchDate(punches[i]) = r.date}
            /\ r.hourly_rate = users[uid].hourly_rate

\* the forms whose transaction raises
RaisingAdjustInputs ==
    {x \in AdjustInputs : AdjustRaises(x.sel_id, x.new_in, x.new_out)}

\* C17: adjust is atomic: a "Spara ändring" whose transaction raises part-way
\* (a malformed Rad-ID, Ny IN or Ny UT, the last also after a valid Ny IN)
\* leaves every punch's clock_in, clock_out and approved flag as they were:
\* no step that changes the punches table is such a "Spara ändring".
C17_FailedAdjustChangesNothing ==
    [][punches' # punches =>
          \A s \in Sessions, x \in RaisingAdjustInputs : ~AdjustStep(s, x)]_vars

\* a manager's or admin's session with the form shown and a punch whose
\* clock_in differs from a valid "Ny IN" that a malformed "Ny UT" follows
C17_PartwayFailureReady ==
    \E s \in Sessions, x \in StaffAdjustInputs :
        /\ session_state[s] # NoUser /\ run[s] = Idle
        /\ IsManagerOrAdmin(s) /\ AdjustFormShown
        /\ x.new_in.kind = "time" /\ x.new_out.kind = "bad"
        /\ x.sel_id.kind = "id" /\ x.sel_id.n \in PunchIds
        /\ punches[x.sel_id.n].clock_in # x.new_in.t

----------------------------------------------------------------------------
(* Properties of the staff register and the schedule (SpecStaff) *)

\* a "Spara person" of form f by an Admin's session
StaffStep(s, f) == session_state[s].role = "Admin" /\ StaffSave(s, f)

\* form f names a username or a PIN that a stored worker has
Conflicts(f) ==
    \E i \in 1..Len(users) :
        \/ users[i].username = f.username
        \/ f.pin # NoPin /\ users[i].pin = f.pin

\* C13: creating a worker with a username or a PIN that an existing worker
\* already has fails and leaves the users table, every row and every field,
\* unchanged.
C13_ConflictingCreateRejected ==
    [][\A s \in Sessions, f \in StaffForms :
          (f.mode = "Ny" /\ Conflicts(f) /\ StaffStep(s, f))
              => users' = users]_vars

\* C14: an update is partial: of full name, role, hourly rate and PIN, each
\* one the form leaves out (a text field left empty, a widget left at its
\* initial value) keeps its stored value, and no other worker changes.
C14_UpdateKeepsOmittedFields ==
    [][\A s \in Sessions, f \in StaffForms :
          (f.mode = "Uppdatera" /\ StaffStep(s, f)) =>
              /\ Len(users') = Len(users)
              /\ \A i \in 1..Len(users) :
                    IF users[i].username = f.username
                    THEN /\ f.full_name = "" => users'[i].full_name = users[i].full_name
                         /\ f.role = DefaultRole => users'[i].role = users[i].role
                         /\ f.hourly = DefaultHourly =>
                                users'[i].hourly_rate = users[i].hourly_rate
                         /\ f.pin = NoPin => users'[i].pin = users[i].pin
                    ELSE users'[i] = users[i]]_vars

\* C15: a delete that names existing and missing ids removes exactly the
\* existing shifts it names, leaves every other shift as it was, and reports
\* the number of shifts it removed.
C15_DeleteReportsRemovedCount ==
    [][\A s \in Sessions :
          LET named == {r \in shifts.rows : r.id \in sel_ids[s]}
              missing == {i \in sel_ids[s] : \A r \in shifts.rows : r.id # i}
          IN  (ShiftDelete(s) /\ named # {} /\ missing # {}) =>
                  /\ shifts'.rows = shifts.rows \ named
                  /\ delete_notice'.numbers = <<Cardinality(named)>>]_vars

\* C18: no two workers have the same PIN (other than none).
C18_PinsAreUnique ==
    \A i, j \in 1..Len(users) :
        (i # j /\ users[i].pin # NoPin) => users[i].pin # users[j].pin

\* the role stored for the worker of session s is Employee
StoredAsEmployee(s) ==
    /\ session_state[s] # NoUser
    /\ users[session_state[s].id].role = "Employee"

\* C20: the capability check follows the stored role: when the worker of a
\* session is stored as Employee, whenever the session logged in, its
\* "Spara ändring" changes no punch, its "Spara skift" adds no shift and its
\* "Radera valda" gets no further than the role test.
C20_StoredRoleDecides ==
    [][\A s \in Sessions :
          StoredAsEmployee(s) =>
              /\ \A x \in StaffAdjustInputs : AdjustStep(s, x) => punches' = punches
              /\ \A person \in ShiftPersons, day \in ShiftDays :
                    ShiftCreate(s, person, day) => shifts' = shifts
              /\ \A sel \in SUBSET ShiftIds : ~ShiftReadWeek(s, sel)]_vars

====
